---- MODULE Spec2Model ----
(***************************************************************************)
(* Stock price ETL pipeline (utils/pipeline.py and its collaborators):     *)
(* fetch -> format -> stage -> load -> merge -> cleanup -> transform ->    *)
(* report, for one day (run_extract_pipeline) or for a date range          *)
(* (run_extract_range_pipeline).                                           *)
(***************************************************************************)
EXTENDS Bags, FiniteSets, Integers, Sequences, TLC

(***************************************************************************)
(* Bounds of the model.                                                    *)
(***************************************************************************)
\* calendar days 1..MaxDay
MaxDay == 2
\* longest ticker list handed to the pipeline
MaxTickers == 2
\* invocations of the pipeline per process
MaxRuns == 2
\* longest list of fetched records handed to a formatter called on its own
MaxRecords == 3
\* invocations per process in the fair specification
MaxFairRuns == 1
\* invocations per process, and records per fetch, where two processes overlap
MaxConcRuns == 1
MaxConcRecords == 2
\* the days two overlapping invocations fetch
MaxConcDay == 1

Procs == {"A", "B"}
\* the processes that run in the sequential specification
SeqProcs == {"A"}
Tickers == {"AAPL", "MSFT"}
\* uuid4().hex[:8] suffixes of temporary table names
Suffixes == {"a1b2c3d4", "e5f6a7b8"}
Days == 1..MaxDay
NoDate == 0

(***************************************************************************)
(* Values.                                                                 *)
(***************************************************************************)
\* a number with its Python type
Num(ty, v) == [type |-> ty, val |-> v]
float(x) == Num("float", x.val)
int(x) == Num("int", x.val)
\* a date-time string: its first 10 characters and the rest
DateStr(day, rest) == [ymd |-> day, rest |-> rest]
\* s[:10]
First10(s) == DateStr(s.ymd, "")
\* Python's None where a date string is expected
None == DateStr(NoDate, "None")
\* the exchange's UTC offset that yfinance puts into the row's timestamp
TzOf(ticker) == IF ticker = "AAPL" THEN "T00:00:00-04:00" ELSE "T00:00:00+09:00"

\* sequences over S of length 0..n
SeqsUpTo(S, n) == {<<>>} \cup UNION {[1..k -> S] : k \in 1..n}

RECURSIVE Concat(_)
Concat(ss) == IF ss = <<>> THEN <<>> ELSE Head(ss) \o Concat(Tail(ss))

RECURSIVE SeqToBag(_)
SeqToBag(s) == IF s = <<>> THEN EmptyBag ELSE SetToBag({Head(s)}) (+) SeqToBag(Tail(s))

\* the number of row instances of bag B that lie in the set rows
RECURSIVE CopiesOf(_, _)
CopiesOf(rows, B) ==
    IF rows = {} THEN 0
    ELSE LET r == CHOOSE x \in rows : TRUE
         IN CopiesIn(r, B) + CopiesOf(rows \ {r}, B)

\* the elements of the finite set of integers S, ascending
RECURSIVE Ascending(_)
Ascending(S) ==
    IF S = {} THEN <<>>
    ELSE LET m == CHOOSE x \in S : \A y \in S : x <= y
         IN <<m>> \o Ascending(S \ {m})

(***************************************************************************)
(* Price Source Adapter: utils/etl/fetch_stock_prices.py                   *)
(***************************************************************************)
\* what one t.history(start, end) call can do: raise, or return the rows of
\* some of the days of [start, end)
Raises == {NoDate}
HistoryOutcomes(start, end_excl) ==
    {out \in SUBSET (Days \cup {NoDate}) :
        out = Raises \/ \A d \in out : d \in Days /\ start <= d /\ d < end_excl}

\* the closing price the provider reports when asked at time now
Quote(now) == 104 + now

\* df.reset_index().to_dict(orient="records") of the days in ds, one quote q
HistoryRecords(ds, q) ==
    [i \in 1..Len(Ascending(ds)) |->
        [Date |-> Ascending(ds)[i], Open |-> Num("float", q - 5),
         High |-> Num("float", q + 5), Low |-> Num("float", q - 15),
         Close |-> Num("float", q), Volume |-> Num("int", q * 1000)]]

\* the record after the loop body of lines 82-86
RawRecord(r, ticker, now) ==
    [ticker |-> ticker, date |-> DateStr(r.Date, TzOf(ticker)),
     created_at |-> [clock |-> now, zone |-> "UTC"],
     Open |-> r.Open, High |-> r.High, Low |-> r.Low, Close |-> r.Close,
     Volume |-> r.Volume]

\* an adapter that hands the caller's end date to the provider as it is
EndForFetch_unadjusted(end) == end

\* end + timedelta(days=1), the provider's exclusive end
EndForFetch(end) == end + 1

\* t.history(start=start, end=end_for_fetch) (lines 51-52, 69): the window
\* the provider is asked for, its end exclusive
history_window(start, end) == [start |-> start, end |-> EndForFetch(end)]

\* (datetime.utcnow() - timedelta(days=1)).strftime("%Y-%m-%d") (line 33),
\* utcnow being the UTC day of the call
get_yesterday_date_str(utcnow) == utcnow - 1

\* the records one ticker contributes: nothing when the query raises (line 93)
\* or the frame is empty (line 72)
TickerRecords(ticker, out, q, now) ==
    IF out = Raises THEN <<>>
    ELSE [i \in 1..Len(HistoryRecords(out, q)) |->
            RawRecord(HistoryRecords(out, q)[i], ticker, now)]

\* a loop that the first raising query ends
fetch_stock_prices_abort(tickers, outs, q, now) ==
    LET bad == {i \in 1..Len(tickers) : outs[i] = Raises}
        n == IF bad = {} THEN Len(tickers)
             ELSE (CHOOSE i \in bad : \A j \in bad : i <= j) - 1
    IN Concat([i \in 1..n |-> TickerRecords(tickers[i], outs[i], q, now)])

\* outs[i] is what the query of the i-th ticker does
fetch_stock_prices(tickers, outs, q, now) ==
    Concat([i \in 1..Len(tickers) |-> TickerRecords(tickers[i], outs[i], q, now)])

(***************************************************************************)
(* Record Formatter: utils/etl/format_stock_prices.py                      *)
(***************************************************************************)
\* the record with its date left as fetched
Formatted_full_date(fetch_result, now) ==
    [ticker_id |-> fetch_result.ticker,
     date |-> fetch_result.date,
     open_price |-> float(fetch_result.Open),
     high_price |-> float(fetch_result.High),
     low_price |-> float(fetch_result.Low),
     close_price |-> float(fetch_result.Close),
     volume |-> int(fetch_result.Volume),
     created_at |-> [clock |-> now, zone |-> "JST"]]

Formatted(fetch_result, now) ==
    [ticker_id |-> fetch_result.ticker,
     date |-> First10(fetch_result.date),
     open_price |-> float(fetch_result.Open),
     high_price |-> float(fetch_result.High),
     low_price |-> float(fetch_result.Low),
     close_price |-> float(fetch_result.Close),
     volume |-> int(fetch_result.Volume),
     created_at |-> [clock |-> now, zone |-> "JST"]]

\* stock_date taken from the first record without the [:10] slice
format_stock_prices_unsliced_date(fetch_results, now) ==
    [results |-> [i \in 1..Len(fetch_results) |-> Formatted(fetch_results[i], now)],
     stock_date |-> IF fetch_results = <<>> THEN None ELSE fetch_results[1].date]

\* (formated_results, stock_date)
format_stock_prices(fetch_results, now) ==
    [results |-> [i \in 1..Len(fetch_results) |-> Formatted(fetch_results[i], now)],
     stock_date |-> IF fetch_results = <<>> THEN None
                    ELSE First10(fetch_results[1].date)]

\* a mapping that puts a new key in front of the others
RECURSIVE format_stock_prices_by_date_newest_first(_, _)
format_stock_prices_by_date_newest_first(fetch_results, now) ==
    IF fetch_results = <<>> THEN <<>>
    ELSE LET n == Len(fetch_results)
             grouped == format_stock_prices_by_date_newest_first(
                            SubSeq(fetch_results, 1, n - 1), now)
             formatted == Formatted(fetch_results[n], now)
             date == formatted.date
         IN IF \E i \in 1..Len(grouped) : grouped[i].key = date
            THEN [i \in 1..Len(grouped) |->
                    IF grouped[i].key = date
                    THEN [key |-> date, value |-> Append(grouped[i].value, formatted)]
                    ELSE grouped[i]]
            ELSE <<[key |-> date, value |-> <<formatted>>]>> \o grouped

\* a grouping that opens a new partition for every record
format_stock_prices_by_date_per_record(fetch_results, now) ==
    [i \in 1..Len(fetch_results) |->
        [key |-> Formatted(fetch_results[i], now).date,
         value |-> <<Formatted(fetch_results[i], now)>>]]

\* the defaultdict as the sequence of its (key, value) items in insertion order
RECURSIVE format_stock_prices_by_date(_, _)
format_stock_prices_by_date(fetch_results, now) ==
    IF fetch_results = <<>> THEN <<>>
    ELSE LET n == Len(fetch_results)
             grouped == format_stock_prices_by_date(SubSeq(fetch_results, 1, n - 1), now)
             formatted == Formatted(fetch_results[n], now)
             date == formatted.date
         IN IF \E i \in 1..Len(grouped) : grouped[i].key = date
            THEN [i \in 1..Len(grouped) |->
                    IF grouped[i].key = date
                    THEN [key |-> date, value |-> Append(grouped[i].value, formatted)]
                    ELSE grouped[i]]
            ELSE Append(grouped, [key |-> date, value |-> <<formatted>>])

(***************************************************************************)
(* Warehouse Loader: utils/etl/load_to_bigquery.py                         *)
(***************************************************************************)
KEY_COLS == <<"ticker_id", "date">>
VALUE_COLS == <<"open_price", "high_price", "low_price", "close_price", "volume",
                "created_at">>

Range(s) == {s[i] : i \in 1..Len(s)}

\* an ON clause over the first key column alone
on_clause_first_key(T, S, key_cols) == T[key_cols[1]] = S[key_cols[1]]

\* ON T.k1 = S.k1 AND T.k2 = S.k2 ...
on_clause(T, S, key_cols) == \A col \in Range(key_cols) : T[col] = S[col]

\* an UPDATE SET list without created_at
update_clause_keep_created_at(T, S, value_cols) ==
    [col \in DOMAIN T |->
        IF col \in Range(value_cols) \ {"created_at"} THEN S[col] ELSE T[col]]

\* UPDATE SET v1 = S.v1, ...
update_clause(T, S, value_cols) ==
    [col \in DOMAIN T |-> IF col \in Range(value_cols) THEN S[col] ELSE T[col]]

\* INSERT (cols) VALUES (S.cols)
insert_clause(S, insert_cols) == [col \in Range(insert_cols) |-> S[col]]

\* the source rows a target row joins with
SourceMatches(t, temp, key_cols) ==
    {s \in BagToSet(temp) : on_clause(t, s, key_cols)}

\* BigQuery rejects a MERGE in which a target row matches more than one
\* source row
MergeRejected(target, temp, key_cols) ==
    \E t \in BagToSet(target) : CopiesOf(SourceMatches(t, temp, key_cols), temp) > 1

\* a statement without its WHEN MATCHED clause: every source row is inserted
build_merge_sql_insert_only(target, temp, key_cols, value_cols) ==
    target (+) [r \in {insert_clause(s, key_cols \o value_cols) : s \in BagToSet(temp)} |->
                  CopiesOf({s \in BagToSet(temp) :
                               insert_clause(s, key_cols \o value_cols) = r}, temp)]

\* a statement that overwrites the target with the source (WRITE_TRUNCATE)
build_merge_sql_overwrite(target, temp, key_cols, value_cols) ==
    [r \in {insert_clause(s, key_cols \o value_cols) : s \in BagToSet(temp)} |->
        CopiesOf({s \in BagToSet(temp) :
                     insert_clause(s, key_cols \o value_cols) = r}, temp)]

\* the target table after the statement built by build_merge_sql has run
build_merge_sql(target, temp, key_cols, value_cols) ==
    LET insert_cols == key_cols \o value_cols
        Upd(t) == IF SourceMatches(t, temp, key_cols) = {} THEN t
                  ELSE update_clause(t, CHOOSE s \in SourceMatches(t, temp, key_cols) : TRUE,
                                     value_cols)
        NotMatched == {s \in BagToSet(temp) :
                          \A t \in BagToSet(target) : ~on_clause(t, s, key_cols)}
        rows == {Upd(t) : t \in BagToSet(target)}
                    \cup {insert_clause(s, insert_cols) : s \in NotMatched}
    IN [r \in rows |->
           CopiesOf({t \in BagToSet(target) : Upd(t) = r}, target)
             + CopiesOf({s \in NotMatched : insert_clause(s, insert_cols) = r}, temp)]


(***************************************************************************)
(* State.                                                                  *)
(***************************************************************************)
VARIABLES
    fact,           \* yfinance_analytics.stock_prices: a bag of rows
    analytics,      \* yfinance_analytics.stock_prices_analysis: the fact rows it was built from
    staged,         \* bucket objects fact/stock_prices_<date>.ndjson: date -> records
    temps,          \* temporary tables of the dataset: suffix -> bag of rows
    webhook_url,    \* whether SLACK_WEBHOOK_URL is set in the environment
    clock,          \* the wall clock, one tick per invocation
    pc,             \* where each process is in its invocation
    mode,           \* "etl" or "etl_range"
    fetch_results,  \* what the fetch returned
    batches,        \* the (date, formatted records) partitions to process, in order
    idx,            \* the partition being processed
    temp_table_id,  \* the suffix load_temp_table returned
    status,         \* the status of the outcome being reported
    error,          \* the exception being handled
    result,         \* how the invocation ended, as the caller sees it
    trace,          \* the collaborator calls of the invocation, in order
    fact0,          \* the fact table when the invocation began
    runs,           \* invocations begun by each process
    args,           \* the arguments of a function called on its own
    ret             \* what that function has returned or raised

vars == <<fact, analytics, staged, temps, webhook_url, clock, pc, mode,
          fetch_results, batches, idx, temp_table_id, status, error, result, trace,
          fact0, runs, args, ret>>

warehouse == <<fact, analytics, staged, temps>>
inputs == <<mode, fetch_results, batches, fact0, runs, clock>>
unit == <<args, ret>>

NoError == ""
NoPayload == [status |-> "", mode |-> "", message |-> "", days |-> 0, error_message |-> ""]
NoResult == [how |-> "running", exception |-> NoError]
\* no function is called on its own
NoArgs == [fn |-> ""]
NoRet == [calls |-> 0, raised |-> NoError, value |-> <<>>]

TickerLists == SeqsUpTo(Tickers, MaxTickers)

Init ==
    /\ fact = EmptyBag
    /\ analytics = EmptyBag
    /\ staged = <<>>
    /\ temps = <<>>
    /\ webhook_url \in BOOLEAN
    /\ clock = 0
    /\ pc = [p \in Procs |-> "idle"]
    /\ mode = [p \in Procs |-> ""]
    /\ fetch_results = [p \in Procs |-> <<>>]
    /\ batches = [p \in Procs |-> <<>>]
    /\ idx = [p \in Procs |-> 0]
    /\ temp_table_id = [p \in Procs |-> ""]
    /\ status = [p \in Procs |-> ""]
    /\ error = [p \in Procs |-> NoError]
    /\ result = [p \in Procs |-> NoResult]
    /\ trace = [p \in Procs |-> <<>>]
    /\ fact0 = [p \in Procs |-> EmptyBag]
    /\ runs = [p \in Procs |-> 0]
    /\ args = NoArgs
    /\ ret = NoRet

(***************************************************************************)
(* Outcome Reporter payloads: utils/pipeline.py, lines 156-217.            *)
(***************************************************************************)
handle_etl_skip(m) ==
    [status |-> "skip", mode |-> m,
     message |-> "No stock data fetched (possibly holiday). ETL skipped.",
     days |-> 0, error_message |-> ""]

\* message: "ETL (mode: etl) completed" or "<days> days of ETL completed"
handle_etl_success(m, days) ==
    [status |-> "success", mode |-> m,
     message |-> IF m = "etl" THEN "mode completed" ELSE "days completed",
     days |-> days, error_message |-> ""]

handle_etl_error(m, e) ==
    [status |-> "error", mode |-> m, message |-> "", days |-> 0, error_message |-> e]

\* the payload being reported by process p
Payload(p) ==
    CASE status[p] = "skip" -> handle_etl_skip(mode[p])
      [] status[p] = "success" ->
            handle_etl_success(mode[p], IF mode[p] = "etl" THEN 0 ELSE Len(batches[p]))
      [] OTHER -> handle_etl_error(mode[p], error[p])

Call(c, date, payload, ok, raised) ==
    [call |-> c, date |-> date, payload |-> payload, ok |-> ok, raised |-> raised]

Step(c, date) == Call(c, date, NoPayload, TRUE, NoError)
Failed(c, date, e) == Call(c, date, NoPayload, FALSE, e)

(***************************************************************************)
(* Control flow of the two operations: utils/pipeline.py.                  *)
(***************************************************************************)
\* the check "if fetch_results is None:", which an empty list does not pass
not_fetch_results_is_None(fr) == fr = <<None>>

\* "if not fetch_results:" (lines 68 and 121)
not_fetch_results(fr) == fr = <<>>

\* a handler that swallows the exception and goes on to the transform
except_Exception_continue(p, e) ==
    /\ status' = [status EXCEPT ![p] = "error"]
    /\ error' = [error EXCEPT ![p] = e]
    /\ pc' = [pc EXCEPT ![p] = "transform"]

\* a handler that notifies without the durable log write
except_Exception_without_log(p, e) ==
    /\ status' = [status EXCEPT ![p] = "error"]
    /\ error' = [error EXCEPT ![p] = e]
    /\ pc' = [pc EXCEPT ![p] = "notify"]

\* "except Exception as e: handle_etl_error(mode, timestamp, e)" (lines 90, 147)
except_Exception(p, e) ==
    /\ status' = [status EXCEPT ![p] = "error"]
    /\ error' = [error EXCEPT ![p] = e]
    /\ pc' = [pc EXCEPT ![p] = "log"]

\* a loop that takes the transform into its body's place after the last item
for_grouped_results_no_transform(i, n) == IF i < n THEN "save" ELSE "log"

\* a loop whose body is left after the first item
for_grouped_results_first_only(i, n) == IF i < 1 THEN "save" ELSE "transform"

\* a loop that stops one item short
for_grouped_results_one_short(i, n) == IF i + 1 < n THEN "save" ELSE "transform"

\* "for stock_date, daily_results in grouped_results.items():" after i of the n
\* items are done: the body again, or the statement after the loop; in mode
\* "etl" the body is lines 73-83, run once
for_grouped_results(i, n) == IF i < n THEN "save" ELSE "transform"

\* "return" after handle_etl_skip or handle_etl_success
return_None(p) ==
    /\ pc' = [pc EXCEPT ![p] = "returned"]
    /\ result' = [result EXCEPT ![p] = [how |-> "returned", exception |-> NoError]]

\* an exception leaves the operation
propagate(p, e) ==
    /\ pc' = [pc EXCEPT ![p] = "raised"]
    /\ result' = [result EXCEPT ![p] = [how |-> "raised", exception |-> e]]

\* lines 62-72 and 114-125: the invocation begins; fetch, the empty check, format
Begin(p, m, fr, grouped, now) ==
    /\ runs' = [runs EXCEPT ![p] = @ + 1]
    /\ clock' = now
    /\ mode' = [mode EXCEPT ![p] = m]
    /\ fetch_results' = [fetch_results EXCEPT ![p] = fr]
    /\ fact0' = [fact0 EXCEPT ![p] = fact]
    /\ temp_table_id' = [temp_table_id EXCEPT ![p] = ""]
    /\ error' = [error EXCEPT ![p] = NoError]
    /\ result' = [result EXCEPT ![p] = NoResult]
    /\ IF not_fetch_results(fr)
       THEN /\ batches' = [batches EXCEPT ![p] = <<>>]
            /\ idx' = [idx EXCEPT ![p] = 0]
            /\ status' = [status EXCEPT ![p] = "skip"]
            /\ pc' = [pc EXCEPT ![p] = "log"]
            /\ trace' = [trace EXCEPT ![p] = <<Step("fetch", None)>>]
       ELSE /\ batches' = [batches EXCEPT ![p] = grouped]
            /\ idx' = [idx EXCEPT ![p] = 1]
            /\ status' = [status EXCEPT ![p] = ""]
            /\ pc' = [pc EXCEPT ![p] = for_grouped_results(0, Len(grouped))]
            /\ trace' = [trace EXCEPT ![p] = <<Step("fetch", None), Step("format", None)>>]
    /\ UNCHANGED <<warehouse, webhook_url, unit>>

\* a process may be invoked when it is not inside an invocation
Invocable(p) == pc[p] \in {"idle", "returned", "raised"} /\ runs[p] < MaxRuns

run_extract_pipeline(p) ==
    /\ Invocable(p)
    /\ \E tk \in TickerLists, yesterday \in Days :
      \E outs \in [1..MaxTickers -> HistoryOutcomes(yesterday, EndForFetch(yesterday))] :
        LET now == clock + 1
            fr == fetch_stock_prices(tk, outs, Quote(now), now)
            f == format_stock_prices(fr, now)
        IN Begin(p, "etl", fr, <<[key |-> f.stock_date, value |-> f.results]>>, now)

\* strptime(end, "%Y-%m-%d") raises when the request carried no end_date
run_extract_range_pipeline_bad_date(p) ==
    /\ Invocable(p)
    /\ runs' = [runs EXCEPT ![p] = @ + 1]
    /\ clock' = clock + 1
    /\ mode' = [mode EXCEPT ![p] = "etl_range"]
    /\ fetch_results' = [fetch_results EXCEPT ![p] = <<>>]
    /\ batches' = [batches EXCEPT ![p] = <<>>]
    /\ idx' = [idx EXCEPT ![p] = 0]
    /\ fact0' = [fact0 EXCEPT ![p] = fact]
    /\ temp_table_id' = [temp_table_id EXCEPT ![p] = ""]
    /\ result' = [result EXCEPT ![p] = NoResult]
    /\ trace' = [trace EXCEPT ![p] = <<Failed("fetch", None, "TypeError")>>]
    /\ except_Exception(p, "TypeError")
    /\ UNCHANGED <<warehouse, webhook_url, unit>>

run_extract_range_pipeline(p) ==
    /\ Invocable(p)
    /\ \E tk \in TickerLists, start_date \in Days, end_date \in Days :
      \E outs \in [1..MaxTickers -> HistoryOutcomes(start_date, EndForFetch(end_date))] :
        LET now == clock + 1
            fr == fetch_stock_prices(tk, outs, Quote(now), now)
        IN Begin(p, "etl_range", fr, format_stock_prices_by_date(fr, now), now)

\* the items taken last first
Batch_reversed(p) == batches[p][Len(batches[p]) + 1 - idx[p]]

\* the partition process p is working on
Batch(p) == batches[p][idx[p]]

Log(p, entry) == trace' = [trace EXCEPT ![p] = Append(@, entry)]

\* an upload named after the date of the last record
upload_from_string_last_date(objects, formatted_results) ==
    LET stock_date == formatted_results[Len(formatted_results)].date
    IN [d \in DOMAIN objects \cup {stock_date} |->
           IF d = stock_date THEN formatted_results ELSE objects[d]]

\* bucket.blob(filename).upload_from_string(data_bytes) (lines 50-63): the
\* objects of the bucket afterwards; filename is
\* fact/stock_prices_<formatted_results[0]["date"]>.ndjson and the data is
\* one json.dumps line per record, in order
upload_from_string(objects, formatted_results) ==
    LET stock_date == formatted_results[1].date
    IN [d \in DOMAIN objects \cup {stock_date} |->
           IF d = stock_date THEN formatted_results ELSE objects[d]]

\* utils/etl/save_json_to_gcs.py, lines 22-71, called at lines 73 and 128
save_json_to_gcs(p) ==
    /\ pc[p] = "save"
    /\ LET formatted_results == Batch(p).value
       IN IF formatted_results = <<>>
          THEN /\ Log(p, Step("save", None))
               /\ pc' = [pc EXCEPT ![p] = "load"]
               /\ UNCHANGED <<staged, status, error>>
          ELSE LET stock_date == formatted_results[1].date
               IN \/ /\ staged' = upload_from_string(staged, formatted_results)
                     /\ Log(p, Step("save", stock_date))
                     /\ pc' = [pc EXCEPT ![p] = "load"]
                     /\ UNCHANGED <<status, error>>
                  \/ /\ Log(p, Failed("save", stock_date, "UploadError"))
                     /\ except_Exception(p, "UploadError")
                     /\ UNCHANGED staged
    /\ UNCHANGED <<fact, analytics, temps, webhook_url, unit, inputs, idx, temp_table_id, result>>

\* uuid.uuid4().hex[:8] (line 67): eight random hex digits, not compared with
\* the names of the tables of the dataset; unused names are interchangeable,
\* so one of them stands for all, beside every name in use
uuid4_hex8 ==
    (Suffixes \cap DOMAIN temps)
       \cup (IF Suffixes \ DOMAIN temps = {} THEN {}
             ELSE {CHOOSE suffix \in Suffixes \ DOMAIN temps : TRUE})

\* utils/etl/load_to_bigquery.py, lines 27-89, called at lines 75 and 130:
\* json_path is fact/stock_prices_<stock_date>.ndjson
load_temp_table(p) ==
    /\ pc[p] = "load"
    /\ LET stock_date == Batch(p).key
       IN \/ /\ stock_date \in DOMAIN staged
             /\ \E suffix \in uuid4_hex8 :
                  /\ temps' = [t \in DOMAIN temps \cup {suffix} |->
                                  IF t = suffix THEN SeqToBag(staged[stock_date])
                                  ELSE temps[t]]
                  /\ temp_table_id' = [temp_table_id EXCEPT ![p] = suffix]
             /\ Log(p, Step("load", stock_date))
             /\ pc' = [pc EXCEPT ![p] = "merge"]
             /\ UNCHANGED <<status, error>>
          \/ /\ Log(p, Failed("load", stock_date, "LoadError"))
             /\ except_Exception(p, "LoadError")
             /\ UNCHANGED <<temps, temp_table_id>>
    /\ UNCHANGED <<fact, analytics, staged, webhook_url, unit, inputs, idx, result>>

\* utils/etl/load_to_bigquery.py, lines 154-181, called at lines 82 and 137
merge_temp_table_to_bq(p) ==
    /\ pc[p] = "merge"
    /\ \/ /\ temp_table_id[p] \in DOMAIN temps
          /\ ~MergeRejected(fact, temps[temp_table_id[p]], KEY_COLS)
          /\ fact' = build_merge_sql(fact, temps[temp_table_id[p]], KEY_COLS, VALUE_COLS)
          /\ Log(p, Step("merge", Batch(p).key))
          /\ pc' = [pc EXCEPT ![p] = "delete"]
          /\ UNCHANGED <<status, error>>
       \/ /\ Log(p, Failed("merge", Batch(p).key, "MergeError"))
          /\ except_Exception(p, "MergeError")
          /\ UNCHANGED fact
    /\ UNCHANGED <<analytics, staged, temps, webhook_url, unit, inputs, idx, temp_table_id, result>>

\* client.delete_table(full_id, not_found_ok=False): a missing table raises
delete_table_must_exist(tables, full_id) ==
    [tables |-> [t \in DOMAIN tables \ {full_id} |-> tables[t]],
     raised |-> IF full_id \in DOMAIN tables THEN NoError ELSE "NotFound"]

\* client.delete_table(full_id, not_found_ok=True) (line 204): the tables
\* afterwards, and what the call raised
delete_table(tables, full_id) ==
    [tables |-> [t \in DOMAIN tables \ {full_id} |-> tables[t]],
     raised |-> NoError]

\* utils/etl/load_to_bigquery.py, lines 189-212, called at lines 83 and 138
delete_temp_table(p) ==
    /\ pc[p] = "delete"
    /\ \/ /\ delete_table(temps, temp_table_id[p]).raised = NoError
          /\ temps' = delete_table(temps, temp_table_id[p]).tables
          /\ Log(p, Step("delete", Batch(p).key))
          /\ pc' = [pc EXCEPT ![p] = for_grouped_results(idx[p], Len(batches[p]))]
          /\ idx' = [idx EXCEPT ![p] = @ + 1]
          /\ UNCHANGED <<status, error>>
       \/ /\ \E e \in {"DeleteError", delete_table(temps, temp_table_id[p]).raised}
                          \ {NoError} :
                /\ Log(p, Failed("delete", Batch(p).key, e))
                /\ except_Exception(p, e)
          /\ UNCHANGED <<temps, idx>>
    /\ UNCHANGED <<fact, analytics, staged, webhook_url, unit, inputs, temp_table_id, result>>

\* a rebuild restricted to the newest date of the fact table
create_sql_latest_date(stock_prices) ==
    LET newest == {r \in BagToSet(stock_prices) :
                     \A o \in BagToSet(stock_prices) : o.date.ymd <= r.date.ymd}
    IN [r \in newest |-> stock_prices[r]]

\* CREATE OR REPLACE TABLE stock_prices_analysis AS SELECT ... FROM stock_prices sp
\* LEFT JOIN tickers ... (lines 39-86): no WHERE clause and only LEFT JOINs, so
\* every row of stock_prices yields a row; the table is represented by the
\* fact rows it was built from
create_sql(stock_prices) == stock_prices

\* utils/etl/transform_to_analytics.py, lines 21-103, called at lines 85 and
\* 140; then handle_etl_success (lines 87, 142)
transform_to_analytics_table(p) ==
    /\ pc[p] = "transform"
    /\ \/ /\ analytics' = create_sql(fact)
          /\ Log(p, Step("transform", None))
          /\ status' = [status EXCEPT ![p] = "success"]
          /\ pc' = [pc EXCEPT ![p] = "log"]
          /\ UNCHANGED error
       \/ /\ Log(p, Failed("transform", None, "QueryError"))
          /\ except_Exception(p, "QueryError")
          /\ UNCHANGED analytics
    /\ UNCHANGED <<fact, staged, temps, webhook_url, unit, inputs, idx, temp_table_id, result>>

\* a log writer without the try/except around the upload: a failed upload
\* raises inside the handler that called it
log_to_gcs_raising(p) ==
    /\ pc[p] = "log"
    /\ \/ /\ Log(p, Call("log_to_gcs", None, Payload(p), TRUE, NoError))
          /\ pc' = [pc EXCEPT ![p] = "notify"]
          /\ UNCHANGED <<status, error, result>>
       \/ /\ Log(p, Call("log_to_gcs", None, Payload(p), FALSE, "UploadError"))
          /\ IF status[p] = "error"
             THEN propagate(p, "UploadError") /\ UNCHANGED <<status, error>>
             ELSE except_Exception(p, "UploadError") /\ UNCHANGED result
    /\ UNCHANGED <<warehouse, webhook_url, unit, inputs, idx, temp_table_id>>

\* utils/logger.py, lines 63-92, called at lines 175, 195 and 215: a failed
\* upload is logged and swallowed
log_to_gcs(p) ==
    /\ pc[p] = "log"
    /\ \E uploaded \in BOOLEAN :
         Log(p, Call("log_to_gcs", None, Payload(p), uploaded, NoError))
    /\ pc' = [pc EXCEPT ![p] = "notify"]
    /\ UNCHANGED <<warehouse, webhook_url, unit, inputs, idx, temp_table_id, status, error, result>>

\* utils/notify/notifier.py, lines 21-68, called at lines 176, 196 and 216,
\* with what follows the call: the return of lines 70, 89 and 146, the
\* "raise error" of line 217
notify_slack(p) ==
    /\ pc[p] = "notify"
    /\ IF ~webhook_url
       THEN /\ Log(p, Call("notify_slack", None, Payload(p), FALSE, "ValueError"))
            /\ IF status[p] = "error"
               THEN propagate(p, "ValueError") /\ UNCHANGED <<status, error>>
               ELSE except_Exception(p, "ValueError") /\ UNCHANGED result
       ELSE /\ \E posted \in BOOLEAN :
                 Log(p, Call("notify_slack", None, Payload(p), posted, NoError))
            /\ IF status[p] = "error"
               THEN propagate(p, error[p])
               ELSE return_None(p)
            /\ UNCHANGED <<status, error>>
    /\ UNCHANGED <<warehouse, webhook_url, unit, inputs, idx, temp_table_id>>

Pipeline(p) ==
    \/ run_extract_pipeline(p)
    \/ run_extract_range_pipeline(p)
    \/ run_extract_range_pipeline_bad_date(p)
    \/ save_json_to_gcs(p)
    \/ load_temp_table(p)
    \/ merge_temp_table_to_bq(p)
    \/ delete_temp_table(p)
    \/ transform_to_analytics_table(p)
    \/ log_to_gcs(p)
    \/ notify_slack(p)

\* one invocation at a time
Next == \E p \in SeqProcs : Pipeline(p)

Spec == Init /\ [][Next]_vars

\* the calls an invocation makes once it has begun: each is a blocking call
\* that returns or raises
Steps(p) ==
    \/ save_json_to_gcs(p)
    \/ load_temp_table(p)
    \/ merge_temp_table_to_bq(p)
    \/ delete_temp_table(p)
    \/ transform_to_analytics_table(p)
    \/ log_to_gcs(p)
    \/ notify_slack(p)

\* an operation is invoked
Invoke(p) ==
    \/ run_extract_pipeline(p)
    \/ run_extract_range_pipeline(p)
    \/ run_extract_range_pipeline_bad_date(p)

\* a process is invoked at most MaxFairRuns times
FairNext == \E p \in SeqProcs : (runs[p] < MaxFairRuns /\ Invoke(p)) \/ Steps(p)

\* two invocations at a time, as when two triggers fire together: each
\* process is invoked at most MaxConcRuns times, with a fetch of at most
\* MaxConcRecords records of the days 1..MaxConcDay; the webhook is set, and the log store and the
\* chat service accept what is sent to them
ConcInit == Init /\ webhook_url

ConcNext ==
    \E p \in Procs :
        \/ /\ runs[p] < MaxConcRuns
           /\ Invoke(p)
           /\ Len(fetch_results'[p]) <= MaxConcRecords
           /\ \A i \in 1..Len(fetch_results'[p]) :
                 fetch_results'[p][i].date.ymd <= MaxConcDay
        \/ /\ Steps(p)
           /\ trace'[p][Len(trace'[p])].call \in {"log_to_gcs", "notify_slack"}
                 => trace'[p][Len(trace'[p])].ok

ConcSpec == ConcInit /\ [][ConcNext]_vars

\* the pipeline under the proviso that no collaborator call blocks for ever
FairSpec == Init /\ [][FairNext]_vars /\ \A p \in SeqProcs : WF_vars(Steps(p))

(***************************************************************************)
(* Request routing: handlers/request_handler.py and main.py.               *)
(***************************************************************************)
\* the mode values a request can carry: the three the handler knows, the
\* dispatcher's default "extract", and other strings
Modes == {"etl", "etl_range", "init_master", "extract", "ETL", ""}

\* what the operation a request is routed to does: it returns (NoError) or
\* raises one of these
OperationErrors ==
    {"UploadError", "LoadError", "MergeError", "DeleteError", "QueryError",
     "ValueError", "TypeError"}
OperationOutcomes == {NoError} \cup OperationErrors

\* a handler whose last branch runs the single-day pipeline
handle_request_else_etl(req_mode, outcome) ==
    CASE req_mode = "etl_range" ->
            [invoked |-> <<"run_extract_range_pipeline">>, raised |-> outcome]
      [] req_mode = "init_master" ->
            [invoked |-> <<"initialize_master_tables">>, raised |-> outcome]
      [] OTHER -> [invoked |-> <<"run_extract_pipeline">>, raised |-> outcome]

\* handle_request(mode, **kwargs) (lines 17-50): the operations it invoked
\* and what it raised, the invoked operation ending with outcome
handle_request(req_mode, outcome) ==
    CASE req_mode = "etl" ->
            [invoked |-> <<"run_extract_pipeline">>, raised |-> outcome]
      [] req_mode = "etl_range" ->
            [invoked |-> <<"run_extract_range_pipeline">>, raised |-> outcome]
      [] req_mode = "init_master" ->
            [invoked |-> <<"initialize_master_tables">>, raised |-> outcome]
      [] OTHER -> [invoked |-> <<>>, raised |-> "ValueError"]

\* request.get_json() raises, returns None, or returns the body
GetJsonOutcomes == {"raises", "None", "dict"}

\* a default that is one of the accepted modes
get_mode_default_etl(request) ==
    IF request.get_json = "raises" THEN [value |-> "", raised |-> "BadRequest"]
    ELSE IF request.get_json = "None" THEN [value |-> "", raised |-> "AttributeError"]
    ELSE [value |-> IF request.has_mode THEN request.mode ELSE "etl",
          raised |-> NoError]

\* request_json.get("mode", "extract") (line 49); None has no get
get_mode(request) ==
    IF request.get_json = "raises" THEN [value |-> "", raised |-> "BadRequest"]
    ELSE IF request.get_json = "None" THEN [value |-> "", raised |-> "AttributeError"]
    ELSE [value |-> IF request.has_mode THEN request.mode ELSE "extract",
          raised |-> NoError]

\* the calls of lines 46-62 in order, up to the first that raises
dispatch(request, tickers_raised, outcome) ==
    LET m == get_mode(request)
        h == handle_request(m.value, outcome)
    IN IF m.raised # NoError THEN [invoked |-> <<>>, raised |-> m.raised]
       ELSE IF tickers_raised # NoError
       THEN [invoked |-> <<"get_tickers">>, raised |-> tickers_raised]
       ELSE [invoked |-> <<"get_tickers">> \o h.invoked, raised |-> h.raised]

\* an entrypoint without the except clause of lines 67-70
etl_dispatcher_without_except(request, tickers_raised, outcome) ==
    LET d == dispatch(request, tickers_raised, outcome)
    IN [response |-> IF d.raised = NoError
                     THEN [body |-> "ETL process completed successfully", code |-> 200]
                     ELSE [body |-> "", code |-> 0],
        invoked |-> d.invoked, raised |-> d.raised]

\* etl_dispatcher(request) (lines 32-70): the whole body is inside try, and
\* except Exception answers 500
etl_dispatcher(request, tickers_raised, outcome) ==
    LET d == dispatch(request, tickers_raised, outcome)
    IN [response |-> IF d.raised = NoError
                     THEN [body |-> "ETL process completed successfully", code |-> 200]
                     ELSE [body |-> "ETL process failed: " \o d.raised, code |-> 500],
        invoked |-> d.invoked, raised |-> NoError]

(***************************************************************************)
(* The functions of the collaborators called on their own, as their unit   *)
(* tests call them: the arguments are chosen at the start, each call sets  *)
(* ret.                                                                    *)
(***************************************************************************)
pipeline == <<webhook_url, inputs, pc, idx, temp_table_id, status, error, result, trace>>

\* the records the provider can report at time now, one per ticker and day
RawRecordsAt(now) ==
    {TickerRecords(ticker, {d}, Quote(now), now)[1] : ticker \in Tickers, d \in Days}

\* rows of the fact table schema
Rows == UNION {{Formatted(r, now) : r \in RawRecordsAt(now)} : now \in 1..MaxRuns}

FetchArgs ==
    UNION {{[fn |-> "fetch_stock_prices", tickers |-> tk, start |-> s, end |-> e,
             query |-> history_window(s, e), outs |-> o] :
               tk \in TickerLists,
               o \in [1..MaxTickers ->
                        HistoryOutcomes(history_window(s, e).start,
                                        history_window(s, e).end)]} :
           s \in Days, e \in Days}

\* the UTC days on which the day before is a day of the calendar
UtcNow == {d + 1 : d \in Days}

\* fetch_stock_prices_latest(tickers) called on the UTC day utcnow
LatestArgs ==
    UNION {{[fn |-> "fetch_stock_prices_latest", tickers |-> tk, utcnow |-> u,
             start |-> get_yesterday_date_str(u), end |-> get_yesterday_date_str(u),
             query |-> history_window(get_yesterday_date_str(u),
                                      get_yesterday_date_str(u)),
             outs |-> o] :
               tk \in TickerLists,
               o \in [1..MaxTickers ->
                        HistoryOutcomes(
                            history_window(get_yesterday_date_str(u),
                                           get_yesterday_date_str(u)).start,
                            history_window(get_yesterday_date_str(u),
                                           get_yesterday_date_str(u)).end)]} :
           u \in UtcNow}

FormatArgs ==
    {[fn |-> f, fetch_results |-> frs] :
        f \in {"format_stock_prices", "format_stock_prices_by_date"},
        frs \in SeqsUpTo(RawRecordsAt(1), MaxRecords)}

MergeArgs == {[fn |-> "build_merge_sql", T |-> t, S |-> s] : t \in Rows, s \in Rows}

\* the temporary tables of the dataset: some of the names, each with one row
TableSets ==
    {<<>>} \cup UNION {[D -> {SetToBag({r}) : r \in Rows}] :
                         D \in (SUBSET Suffixes) \ {{}}}

DeleteArgs ==
    {[fn |-> "delete_temp_table", temp_table_id |-> id, tables |-> tb] :
        id \in Suffixes, tb \in TableSets}

HandleArgs ==
    {[fn |-> "handle_request", mode |-> m, outcome |-> o] :
        m \in Modes, o \in OperationOutcomes}

Requests ==
    {[get_json |-> g, has_mode |-> h, mode |-> m] :
        g \in GetJsonOutcomes, h \in BOOLEAN, m \in Modes}

DispatchArgs ==
    {[fn |-> "etl_dispatcher", request |-> r, get_tickers |-> t, outcome |-> o] :
        r \in Requests, t \in {NoError, "QueryError"}, o \in OperationOutcomes}

\* the formatted records of one moment
FormattedRows == {Formatted(r, 1) : r \in RawRecordsAt(1)}

\* the bucket before the call: empty, or holding the object of one date
Buckets == {<<>>} \cup UNION {[{r.date} -> {<<r>>}] : r \in FormattedRows}

SaveArgs ==
    {[fn |-> "save_json_to_gcs", formatted_results |-> fr, objects |-> b] :
        fr \in SeqsUpTo(FormattedRows, MaxRecords), b \in Buckets}

UnitInit ==
    /\ \/ args \in FetchArgs
       \/ args \in FormatArgs
       \/ args \in MergeArgs
       \/ args \in DeleteArgs
       \/ args \in LatestArgs
       \/ args \in SaveArgs
       \/ args \in HandleArgs
       \/ args \in DispatchArgs
    /\ ret = NoRet
    /\ temps = IF args.fn = "delete_temp_table" THEN args.tables ELSE <<>>
    /\ fact = EmptyBag
    /\ analytics = EmptyBag
    /\ staged = IF args.fn = "save_json_to_gcs" THEN args.objects ELSE <<>>
    /\ webhook_url = TRUE
    /\ clock = 0
    /\ pc = [p \in Procs |-> "idle"]
    /\ mode = [p \in Procs |-> ""]
    /\ fetch_results = [p \in Procs |-> <<>>]
    /\ batches = [p \in Procs |-> <<>>]
    /\ idx = [p \in Procs |-> 0]
    /\ temp_table_id = [p \in Procs |-> ""]
    /\ status = [p \in Procs |-> ""]
    /\ error = [p \in Procs |-> NoError]
    /\ result = [p \in Procs |-> NoResult]
    /\ trace = [p \in Procs |-> <<>>]
    /\ fact0 = [p \in Procs |-> EmptyBag]
    /\ runs = [p \in Procs |-> 0]

Returned(value) == [calls |-> ret.calls + 1, raised |-> NoError, value |-> value]

\* fetch_stock_prices(tickers, start, end): every exception of a ticker's
\* query is caught inside the loop (lines 63, 93)
apply_fetch_stock_prices ==
    /\ args.fn = "fetch_stock_prices" /\ ret.calls = 0
    /\ ret' = Returned(fetch_stock_prices(args.tickers, args.outs,
                                          Quote(clock + 1), clock + 1))
    /\ UNCHANGED <<warehouse, pipeline, args>>

\* fetch_stock_prices_latest(tickers) (lines 106-112)
apply_fetch_stock_prices_latest ==
    /\ args.fn = "fetch_stock_prices_latest" /\ ret.calls = 0
    /\ ret' = Returned(fetch_stock_prices(args.tickers, args.outs,
                                          Quote(clock + 1), clock + 1))
    /\ UNCHANGED <<warehouse, pipeline, args>>

apply_format_stock_prices ==
    /\ args.fn = "format_stock_prices" /\ ret.calls = 0
    /\ ret' = Returned(format_stock_prices(args.fetch_results, clock + 1))
    /\ UNCHANGED <<warehouse, pipeline, args>>

apply_format_stock_prices_by_date ==
    /\ args.fn = "format_stock_prices_by_date" /\ ret.calls = 0
    /\ ret' = Returned(format_stock_prices_by_date(args.fetch_results, clock + 1))
    /\ UNCHANGED <<warehouse, pipeline, args>>

\* build_merge_sql(target, temp, KEY_COLS, VALUE_COLS): what the clauses of
\* the statement make of a target row T and a source row S
apply_build_merge_sql ==
    /\ args.fn = "build_merge_sql" /\ ret.calls = 0
    /\ ret' = Returned([on |-> on_clause(args.T, args.S, KEY_COLS),
                        update |-> update_clause(args.T, args.S, VALUE_COLS),
                        insert |-> insert_clause(args.S, KEY_COLS \o VALUE_COLS)])
    /\ UNCHANGED <<warehouse, pipeline, args>>

\* delete_temp_table(temp_table_id, dataset_id), called once and once again
apply_delete_temp_table ==
    /\ args.fn = "delete_temp_table" /\ ret.calls < 2 /\ ret.raised = NoError
    /\ LET r == delete_table(temps, args.temp_table_id)
       IN /\ temps' = IF r.raised = NoError THEN r.tables ELSE temps
          /\ ret' = [calls |-> ret.calls + 1, raised |-> r.raised, value |-> <<>>]
    /\ UNCHANGED <<fact, analytics, staged, pipeline, args>>

\* save_json_to_gcs(bucket_name, formatted_results) with the bucket mocked:
\* the early return of lines 36-40, the upload, or the upload's exception
\* re-raised (lines 67-71)
apply_save_json_to_gcs ==
    /\ args.fn = "save_json_to_gcs" /\ ret.calls = 0
    /\ IF args.formatted_results = <<>>
       THEN ret' = Returned(<<>>) /\ UNCHANGED staged
       ELSE \/ /\ staged' = upload_from_string(staged, args.formatted_results)
               /\ ret' = Returned(<<>>)
            \/ /\ ret' = [calls |-> 1, raised |-> "UploadError", value |-> <<>>]
               /\ UNCHANGED staged
    /\ UNCHANGED <<fact, analytics, temps, pipeline, args>>

\* handle_request(mode, ...) with the routed operation mocked, as the tests
\* of the entrypoint mock it
apply_handle_request ==
    /\ args.fn = "handle_request" /\ ret.calls = 0
    /\ LET h == handle_request(args.mode, args.outcome)
       IN ret' = [calls |-> 1, raised |-> h.raised, value |-> h.invoked]
    /\ UNCHANGED <<warehouse, pipeline, args>>

\* etl_dispatcher(request) with get_tickers and the routed operation mocked
apply_etl_dispatcher ==
    /\ args.fn = "etl_dispatcher" /\ ret.calls = 0
    /\ LET r == etl_dispatcher(args.request, args.get_tickers, args.outcome)
       IN ret' = [calls |-> 1, raised |-> r.raised,
                  value |-> [response |-> r.response, invoked |-> r.invoked]]
    /\ UNCHANGED <<warehouse, pipeline, args>>

UnitNext ==
    \/ apply_handle_request
    \/ apply_etl_dispatcher
    \/ apply_fetch_stock_prices
    \/ apply_fetch_stock_prices_latest
    \/ apply_save_json_to_gcs
    \/ apply_format_stock_prices
    \/ apply_format_stock_prices_by_date
    \/ apply_build_merge_sql
    \/ apply_delete_temp_table

UnitSpec == UnitInit /\ [][UnitNext]_vars

(***************************************************************************)
(* Observations on an invocation.                                          *)
(***************************************************************************)
CycleCalls == {"save", "load", "merge", "delete"}
LoaderCalls == CycleCalls \cup {"transform"}
ReportCalls == {"log_to_gcs", "notify_slack"}

Terminated(p) == pc[p] \in {"returned", "raised"}
Started(p) == trace[p] # <<>>
CallNames(p) == [i \in 1..Len(trace[p]) |-> trace[p][i].call]
Count(p, c) == Cardinality({i \in 1..Len(trace[p]) : trace[p][i].call = c})
\* no collaborator call of the invocation has failed so far
NoFailure(p) == \A i \in 1..Len(trace[p]) : trace[p][i].ok
\* the fetch of the invocation returned, and returned nothing
EmptyFetch(p) == Started(p) /\ trace[p][1].ok /\ fetch_results[p] = <<>>
NonEmptyFetch(p) == Started(p) /\ fetch_results[p] # <<>>
\* the outcome payloads handed to log_to_gcs, in order
Reported(p, st) ==
    \E i \in 1..Len(trace[p]) :
        trace[p][i].call = "log_to_gcs" /\ trace[p][i].payload.status = st
IsPrefix(s, t) == Len(s) <= Len(t) /\ \A i \in 1..Len(s) : s[i] = t[i]

KeyOf(r) == [ticker_id |-> r.ticker_id, date |-> r.date]
Keys(B) == {KeyOf(r) : r \in BagToSet(B)}
\* the number of rows of table B with key k
CountKey(B, k) == CopiesOf({r \in BagToSet(B) : KeyOf(r) = k}, B)
\* the dates of the fetch result
FetchedDates(p) == {First10(fetch_results[p][i].date) : i \in 1..Len(fetch_results[p])}

(***************************************************************************)
(* C1: when the fetch returns nothing, the skip outcome is reported, no    *)
(* stage, load, merge, cleanup or transform call is made in the            *)
(* invocation, and no step of the invocation changes the fact table, the   *)
(* analytics table or the staged objects.                                  *)
(***************************************************************************)
C1_SkipHandled(p) ==
    /\ \A i \in 1..Len(trace[p]) : trace[p][i].call \notin LoaderCalls
    /\ IF Len(trace[p]) = 1
       THEN pc[p] = "log" /\ status[p] = "skip"
       ELSE /\ trace[p][2].call = "log_to_gcs"
            /\ trace[p][2].payload = handle_etl_skip(mode[p])

C1_EmptyFetchSkips ==
    [][\A p \in Procs :
          (EmptyFetch(p)' /\ pc'[p] # pc[p])
             => /\ C1_SkipHandled(p)'
                /\ UNCHANGED <<fact, analytics, staged>>]_vars

\* a second invocation fetched nothing and returned, the fact table holding rows
C1_Witness ==
    \E p \in Procs :
        /\ EmptyFetch(p) /\ pc[p] = "returned" /\ fact # EmptyBag
        /\ mode[p] = "etl_range"

(***************************************************************************)
(* C2: a single-day run with a non-empty fetch and no failing call makes   *)
(* the calls stage, load, merge, cleanup, transform, log, notify once      *)
(* each, in that order, and the report is the success outcome.             *)
(***************************************************************************)
C2_Expected ==
    <<"fetch", "format", "save", "load", "merge", "delete", "transform",
      "log_to_gcs", "notify_slack">>

C2_LatestCallsOnceInOrder ==
    \A p \in Procs :
        (mode[p] = "etl" /\ NonEmptyFetch(p) /\ NoFailure(p))
           => /\ IsPrefix(CallNames(p), C2_Expected)
              /\ Terminated(p) =>
                   /\ CallNames(p) = C2_Expected
                   /\ trace[p][8].payload = handle_etl_success("etl", 0)
                   /\ trace[p][9].payload = handle_etl_success("etl", 0)
                   /\ result[p].how = "returned"

C2_Witness ==
    \E p \in Procs :
        /\ mode[p] = "etl" /\ NonEmptyFetch(p) /\ NoFailure(p) /\ Terminated(p)
        /\ Len(fetch_results[p]) = 2

(***************************************************************************)
(* C3: a range run over N distinct dates with no failing call makes N      *)
(* stage, load, merge and cleanup calls, one transform call and one        *)
(* report, whose success message states N.                                 *)
(***************************************************************************)
C3_RangeCallsPerDate ==
    \A p \in Procs :
        (mode[p] = "etl_range" /\ NonEmptyFetch(p) /\ NoFailure(p) /\ Terminated(p))
           => LET N == Cardinality(FetchedDates(p))
              IN /\ \A c \in CycleCalls : Count(p, c) = N
                 /\ Count(p, "transform") = 1
                 /\ Count(p, "log_to_gcs") = 1
                 /\ Count(p, "notify_slack") = 1
                 /\ \A i \in 1..Len(trace[p]) :
                       trace[p][i].call \in ReportCalls
                          => /\ trace[p][i].payload.status = "success"
                             /\ trace[p][i].payload.message = "days completed"
                             /\ trace[p][i].payload.days = N
                 /\ result[p].how = "returned"

C3_Witness ==
    \E p \in Procs :
        /\ mode[p] = "etl_range" /\ NonEmptyFetch(p) /\ NoFailure(p) /\ Terminated(p)
        /\ Cardinality(FetchedDates(p)) = 2
        /\ Len(fetch_results[p]) = 3

(***************************************************************************)
(* C4: when an invocation raises, its last two calls were the durable log  *)
(* write and then the notification of an error payload.                    *)
(***************************************************************************)
C4_ErrorReportedBeforeRaise ==
    \A p \in Procs :
        pc[p] = "raised" =>
            LET n == Len(trace[p])
            IN /\ n >= 3
               /\ trace[p][n - 1].call = "log_to_gcs"
               /\ trace[p][n - 1].payload.status = "error"
               /\ trace[p][n].call = "notify_slack"
               /\ trace[p][n].payload = trace[p][n - 1].payload
               /\ \E i \in 1..(n - 2) : ~trace[p][i].ok

C4_Witness ==
    \E p \in Procs :
        /\ pc[p] = "raised"
        /\ \E i \in 1..Len(trace[p]) :
              trace[p][i].call = "merge" /\ trace[p][i].raised = "MergeError"

(***************************************************************************)
(* C5: after a step has raised the invocation does not return normally,    *)
(* and the exception that reaches the caller is the one the failing step   *)
(* raised.                                                                 *)
(***************************************************************************)
\* the exception of the first call of the invocation that raised
FirstRaised(p) ==
    LET i == CHOOSE j \in 1..Len(trace[p]) :
                 /\ trace[p][j].raised # NoError
                 /\ \A k \in 1..(j - 1) : trace[p][k].raised = NoError
    IN trace[p][i].raised

SomeRaised(p) == \E i \in 1..Len(trace[p]) : trace[p][i].raised # NoError

C5_OriginalErrorReraised ==
    \A p \in Procs :
        (Terminated(p) /\ SomeRaised(p))
           => /\ result[p].how = "raised"
              /\ result[p].exception = FirstRaised(p)
              /\ Cardinality({i \in 1..Len(trace[p]) :
                                 /\ trace[p][i].call = "log_to_gcs"
                                 /\ trace[p][i].payload.status = "error"}) = 1

(***************************************************************************)
(* C6: a run whose stage, load, merge, cleanup and transform calls all     *)
(* succeeded, or whose fetch was empty, reports no error outcome and       *)
(* returns normally, however the notification fails.                       *)
(***************************************************************************)
EtlStepsSucceeded(p) ==
    /\ Started(p)
    /\ \A i \in 1..Len(trace[p]) :
          trace[p][i].call \notin ReportCalls => trace[p][i].ok

C6_NotifyFailureNotEscalated ==
    \A p \in Procs :
        EtlStepsSucceeded(p)
           => /\ ~Reported(p, "error")
              /\ Terminated(p) => result[p].how = "returned"

(***************************************************************************)
(* C7: when an invocation has terminated, the temporary table its last     *)
(* load_temp_table call created is gone (the tables of earlier cycles were *)
(* deleted before the next cycle began).                                   *)
(***************************************************************************)
C7_NoTempTableRemains ==
    \A p \in Procs :
        Terminated(p) => temp_table_id[p] \notin DOMAIN temps

(***************************************************************************)
(* C8: when an invocation has reported success, every key that the fetch   *)
(* holds once and the fact table held once before the invocation is held   *)
(* once afterwards, with the values of this invocation's record; and when  *)
(* every fetched key was in the table before, the table has the same keys  *)
(* and as many rows as before.                                             *)
(***************************************************************************)
\* the formatted record of the i-th fetched record of process p
FormattedAt(p, i) == Formatted(fetch_results[p][i], clock)

Succeeded(p) == result[p].how = "returned" /\ status[p] = "success"

C8_RerunUpdatesInPlace ==
    \A p \in SeqProcs :
        Succeeded(p) =>
            LET n == Len(fetch_results[p])
                fetched == SeqToBag([i \in 1..n |-> FormattedAt(p, i)])
            IN /\ \A i \in 1..n :
                    LET k == KeyOf(FormattedAt(p, i))
                    IN (CountKey(fetched, k) = 1 /\ CountKey(fact0[p], k) = 1)
                          => /\ CountKey(fact, k) = 1
                             /\ CopiesIn(FormattedAt(p, i), fact) = 1
               /\ Keys(fetched) \subseteq Keys(fact0[p])
                    => /\ Keys(fact) = Keys(fact0[p])
                       /\ BagCardinality(fact) = BagCardinality(fact0[p])

\* the second run fetched one record of a key merged before, at another price
C8_Witness ==
    \E p \in SeqProcs :
        /\ Succeeded(p)
        /\ Len(fetch_results[p]) = 1
        /\ fetch_results[p][1].Close = Num("float", 106)
        /\ \E r \in BagToSet(fact0[p]) :
              /\ KeyOf(r) = KeyOf(FormattedAt(p, 1))
              /\ r.close_price = Num("float", 105)
        /\ CountKey(fact0[p], KeyOf(FormattedAt(p, 1))) = 1

(***************************************************************************)
(* C9: the fact table holds at most one row per (ticker_id, date).         *)
(***************************************************************************)
C9_OneRowPerKey == \A k \in Keys(fact) : CountKey(fact, k) <= 1

(***************************************************************************)
(* C10: when a stage, load, merge or cleanup call of the k-th date of a    *)
(* range run has failed, the records of dates 1..k-1 are in the fact       *)
(* table, the rows of every date after k are as they were when the         *)
(* invocation began, no success outcome is reported, and the invocation    *)
(* ends by raising after an error outcome.                                 *)
(***************************************************************************)
CycleFailed(p) ==
    \E i \in 1..Len(trace[p]) : trace[p][i].call \in CycleCalls /\ ~trace[p][i].ok

RowsOfDate(B, d) == {r \in BagToSet(B) : r.date = d}

C10_PartialRangeFailure ==
    \A p \in SeqProcs :
        (mode[p] = "etl_range" /\ CycleFailed(p))
           => LET k == idx[p]
              IN /\ \A j \in 1..(k - 1) :
                       \A i \in 1..Len(batches[p][j].value) :
                           CopiesIn(batches[p][j].value[i], fact) >= 1
                 /\ \A j \in (k + 1)..Len(batches[p]) :
                       /\ RowsOfDate(fact, batches[p][j].key)
                             = RowsOfDate(fact0[p], batches[p][j].key)
                       /\ \A r \in RowsOfDate(fact, batches[p][j].key) :
                             CopiesIn(r, fact) = CopiesIn(r, fact0[p])
                 /\ ~Reported(p, "success")
                 /\ Count(p, "transform") = 0
                 /\ Terminated(p) => result[p].how = "raised" /\ Reported(p, "error")

\* the second date of two failed, in a run over a table that held rows
C10_Witness ==
    \E p \in SeqProcs :
        /\ mode[p] = "etl_range" /\ CycleFailed(p) /\ pc[p] = "raised"
        /\ idx[p] = 2 /\ Len(batches[p]) = 2
        /\ fact0[p] # EmptyBag

\* the first date of two failed, in a run over a table that held rows of the second
C10_WitnessLater ==
    \E p \in SeqProcs :
        /\ mode[p] = "etl_range" /\ CycleFailed(p) /\ pc[p] = "raised"
        /\ idx[p] = 1 /\ Len(batches[p]) = 2
        /\ RowsOfDate(fact0[p], batches[p][2].key) # {}

(***************************************************************************)
(* C11: after a stage, load, merge or cleanup call of an invocation has    *)
(* failed, the invocation makes no further stage, load, merge, cleanup or  *)
(* transform call; and no call is made twice for one date partition.       *)
(***************************************************************************)
C11_FailureAborts ==
    \A p \in Procs :
        LET n == Len(trace[p])
        IN /\ \A i \in 1..n :
                 (trace[p][i].call \in CycleCalls /\ ~trace[p][i].ok)
                    => \A j \in (i + 1)..n : trace[p][j].call \notin LoaderCalls
           /\ \A i \in 1..n : \A j \in (i + 1)..n :
                 trace[p][i].call \in LoaderCalls
                    => ~(/\ trace[p][j].call = trace[p][i].call
                         /\ trace[p][j].date = trace[p][i].date)

\* a range run over two dates raised after the load of the first date failed
C11_Witness ==
    \E p \in Procs :
        /\ pc[p] = "raised" /\ mode[p] = "etl_range" /\ Len(batches[p]) = 2
        /\ Len(trace[p]) = 6
        /\ trace[p][4].call = "load" /\ ~trace[p][4].ok

(***************************************************************************)
(* C12: in a range run the transform call comes right after the successful *)
(* cleanup of the last date partition, all partitions having been cleaned  *)
(* up; no stage, load, merge or cleanup call follows it, and it is made at *)
(* most once.                                                              *)
(***************************************************************************)
C12_TransformAfterLastCleanup ==
    \A p \in Procs :
        mode[p] = "etl_range" =>
            /\ Count(p, "transform") <= 1
            /\ \A i \in 1..Len(trace[p]) :
                  trace[p][i].call = "transform"
                     => /\ i > 1
                        /\ trace[p][i - 1].call = "delete" /\ trace[p][i - 1].ok
                        /\ trace[p][i - 1].date = batches[p][Len(batches[p])].key
                        /\ Cardinality({j \in 1..(i - 1) :
                                          trace[p][j].call = "delete" /\ trace[p][j].ok})
                              = Len(batches[p])
                        /\ \A j \in (i + 1)..Len(trace[p]) :
                              trace[p][j].call \notin CycleCalls

\* a range run over two dates has made its transform call
C12_Witness ==
    \E p \in Procs :
        /\ mode[p] = "etl_range" /\ Len(batches[p]) = 2
        /\ Count(p, "transform") = 1 /\ Terminated(p)

(***************************************************************************)
(* C13: in a range run the dates are taken in the order in which they are  *)
(* first seen in the fetch result; the cycle calls of the invocation are   *)
(* stage, load, merge, cleanup of the first date, then of the second, and  *)
(* so on; at most one load is not yet followed by its cleanup, and after a *)
(* cleanup the temporary table of the invocation does not exist.           *)
(***************************************************************************)
IsCycleCall(e) == e.call \in CycleCalls
CycleOrder == <<"save", "load", "merge", "delete">>
\* the position in the fetch result of the first record of date d
FirstSeen(p, d) ==
    CHOOSE i \in 1..Len(fetch_results[p]) :
        /\ First10(fetch_results[p][i].date) = d
        /\ \A j \in 1..(i - 1) : First10(fetch_results[p][j].date) # d
OkCalls(p, c) ==
    Cardinality({i \in 1..Len(trace[p]) : trace[p][i].call = c /\ trace[p][i].ok})

C13_CyclesInOrderNoOverlap ==
    \A p \in Procs :
        mode[p] = "etl_range" =>
            LET cycle == SelectSeq(trace[p], IsCycleCall)
            IN /\ \A j \in 1..Len(batches[p]) : \A k \in (j + 1)..Len(batches[p]) :
                     FirstSeen(p, batches[p][j].key) < FirstSeen(p, batches[p][k].key)
               /\ Len(cycle) <= 4 * Len(batches[p])
               /\ \A i \in 1..Len(cycle) :
                     /\ cycle[i].call = CycleOrder[((i - 1) % 4) + 1]
                     /\ cycle[i].date = batches[p][((i - 1) \div 4) + 1].key
                     /\ i < Len(cycle) => cycle[i].ok
               /\ OkCalls(p, "load") - OkCalls(p, "delete") \in {0, 1}
               /\ (OkCalls(p, "load") > 0 /\ OkCalls(p, "load") = OkCalls(p, "delete"))
                     => temp_table_id[p] \notin DOMAIN temps

\* the second date of a range run is being merged, the first being done, in
\* a fetch result where a record of the first date follows one of the second
C13_Witness ==
    \E p \in Procs :
        /\ mode[p] = "etl_range" /\ Len(batches[p]) = 2 /\ pc[p] = "merge"
        /\ idx[p] = 2 /\ Len(fetch_results[p]) = 4
        /\ temp_table_id[p] \in DOMAIN temps

(***************************************************************************)
(* C17: the records of a date partition handed to the Staging Writer hold  *)
(* at most one record per (ticker_id, date).                               *)
(***************************************************************************)
C17_OneRecordPerKeyStaged ==
    \A p \in Procs : \A j \in 1..Len(batches[p]) :
        \A a \in 1..Len(batches[p][j].value) : \A b \in (a + 1)..Len(batches[p][j].value) :
            KeyOf(batches[p][j].value[a]) # KeyOf(batches[p][j].value[b])

(***************************************************************************)
(* C19: a successful merge step leaves, for every key of the temporary     *)
(* table that the fact table held, only rows equal to the temporary row of *)
(* that key, as many as before; puts every temporary row of a key the fact *)
(* table did not hold into the fact table; and leaves the rows of every    *)
(* other key as they were. No row is deleted.                              *)
(***************************************************************************)
\* process p's merge has run successfully in this step
Merged(p) == pc[p] = "merge" /\ pc'[p] = "delete"

C19_MergeIsUpsert ==
    [][\A p \in Procs :
          Merged(p) =>
            LET temp == temps[temp_table_id[p]]
            IN /\ \A s \in BagToSet(temp) :
                     IF KeyOf(s) \in Keys(fact)
                     THEN /\ \A r \in BagToSet(fact') : KeyOf(r) = KeyOf(s) => r = s
                          /\ CountKey(fact', KeyOf(s)) = CountKey(fact, KeyOf(s))
                     ELSE CopiesIn(s, fact') = CopiesIn(s, temp)
               /\ \A t \in BagToSet(fact) :
                     KeyOf(t) \notin Keys(temp) => CopiesIn(t, fact') = CopiesIn(t, fact)
               /\ Keys(fact') = Keys(fact) \cup Keys(temp)
               /\ BagCardinality(fact') >= BagCardinality(fact)]_vars

\* a merge has updated one row, inserted one and left one as it was
C19_Witness ==
    \E p \in Procs :
        /\ pc[p] = "delete" /\ trace[p][Len(trace[p])].call = "merge"
        /\ BagCardinality(fact0[p]) = 2 /\ BagCardinality(fact) = 3
        /\ \E r \in BagToSet(fact0[p]) : CopiesIn(r, fact) = 1
        /\ \E r \in BagToSet(fact0[p]) :
              /\ CopiesIn(r, fact) = 0
              /\ \E s \in BagToSet(fact) : KeyOf(s) = KeyOf(r) /\ s.close_price # r.close_price

(***************************************************************************)
(* C14: fetch_stock_prices raises nothing and returns, ticker by ticker in *)
(* the order of the list, one record per day its query returned; a ticker  *)
(* whose query raised or returned nothing contributes no record.           *)
(***************************************************************************)
\* the number of records the i-th ticker contributes
C14_Size(i) == IF args.outs[i] = Raises THEN 0 ELSE Cardinality(args.outs[i])
\* the number of records of the tickers before the i-th
RECURSIVE C14_Offset(_)
C14_Offset(i) == IF i = 1 THEN 0 ELSE C14_Offset(i - 1) + C14_Size(i - 1)

C14_FetchSkipsFailedTickers ==
    (args.fn = "fetch_stock_prices" /\ ret.calls = 1) =>
        LET n == Len(args.tickers)
        IN /\ ret.raised = NoError
           /\ Len(ret.value) = C14_Offset(n + 1)
           /\ \A i \in 1..n : \A k \in 1..C14_Size(i) :
                 LET r == ret.value[C14_Offset(i) + k]
                 IN /\ r.ticker = args.tickers[i]
                    /\ r.date.ymd \in args.outs[i]
                    /\ Cardinality({d \in args.outs[i] : d <= r.date.ymd}) = k

\* the first ticker's query raised, the second ticker's returned two days
C14_Witness ==
    /\ args.fn = "fetch_stock_prices" /\ ret.calls = 1
    /\ Len(args.tickers) = 2
    /\ args.outs[1] = Raises
    /\ Len(ret.value) = 2

(***************************************************************************)
(* C15: format_stock_prices returns one record per input record, the i-th  *)
(* with the input's ticker and the first 10 characters of its date;        *)
(* format_stock_prices_by_date returns groups whose sizes sum to the input *)
(* length and whose records carry the (ticker, date prefix) pairs of the   *)
(* input records, each as often as the input has it.                       *)
(***************************************************************************)
\* the ticker and the first 10 characters of the date of a fetched record
C15_Pair(r) == [ticker_id |-> r.ticker, date |-> [ymd |-> r.date.ymd, rest |-> ""]]

C15_OneFormattedPerRecord ==
    LET in == args.fetch_results
    IN /\ (args.fn = "format_stock_prices" /\ ret.calls = 1) =>
             /\ Len(ret.value.results) = Len(in)
             /\ \A i \in 1..Len(in) : KeyOf(ret.value.results[i]) = C15_Pair(in[i])
       /\ (args.fn = "format_stock_prices_by_date" /\ ret.calls = 1) =>
             LET all == Concat([j \in 1..Len(ret.value) |-> ret.value[j].value])
             IN /\ Len(all) = Len(in)
                /\ SeqToBag([i \in 1..Len(all) |-> KeyOf(all[i])])
                      = SeqToBag([i \in 1..Len(in) |-> C15_Pair(in[i])])

\* three records of two dates have been grouped
C15_Witness ==
    /\ args.fn = "format_stock_prices_by_date" /\ ret.calls = 1
    /\ Len(args.fetch_results) = 3
    /\ Len(ret.value) = 2

(***************************************************************************)
(* C16: in the mapping format_stock_prices_by_date returns, every record   *)
(* under key d has date d, no date prefix has two keys, every input date   *)
(* prefix is a key, the keys are in the order in which their dates are     *)
(* first seen in the input, and the records of a key are the formatted     *)
(* input records of that date in input order.                              *)
(***************************************************************************)
\* the position in the input of the first record of date prefix d
C16_FirstSeen(d) ==
    CHOOSE i \in 1..Len(args.fetch_results) :
        /\ C15_Pair(args.fetch_results[i]).date = d
        /\ \A j \in 1..(i - 1) : C15_Pair(args.fetch_results[j]).date # d

C16_GroupedByDatePrefix ==
    (args.fn = "format_stock_prices_by_date" /\ ret.calls = 1) =>
        LET in == args.fetch_results
            g == ret.value
            formatted == format_stock_prices(in, clock + 1).results
        IN /\ \A j \in 1..Len(g) : \A i \in 1..Len(g[j].value) :
                 g[j].value[i].date = g[j].key
           /\ \A j \in 1..Len(g) : \A k \in (j + 1)..Len(g) :
                 /\ g[j].key # g[k].key
                 /\ C16_FirstSeen(g[j].key) < C16_FirstSeen(g[k].key)
           /\ \A i \in 1..Len(in) : \E j \in 1..Len(g) : g[j].key = C15_Pair(in[i]).date
           /\ \A j \in 1..Len(g) :
                 g[j].value = SelectSeq(formatted, LAMBDA r : r.date = g[j].key)

\* the input holds a record of the second day, one of the first day, and
\* another ticker's record of the second day
C16_Witness ==
    /\ args.fn = "format_stock_prices_by_date" /\ ret.calls = 1
    /\ Len(args.fetch_results) = 3
    /\ args.fetch_results[1].date.ymd = 2
    /\ args.fetch_results[2].date.ymd = 1
    /\ args.fetch_results[3].date.ymd = 2
    /\ args.fetch_results[3].ticker # args.fetch_results[1].ticker
    /\ Len(ret.value) = 2 /\ Len(ret.value[1].value) = 2

(***************************************************************************)
(* C18: with KEY_COLS and VALUE_COLS, the ON clause holds of a target and  *)
(* a source row exactly when they agree on ticker_id and date; the UPDATE  *)
(* SET list takes the six value columns from the source and leaves the key *)
(* columns; the INSERT lists name the two key columns followed by the six  *)
(* value columns, each once, with the source's values.                     *)
(***************************************************************************)
C18_ClausesCoverExactColumns ==
    (args.fn = "build_merge_sql" /\ ret.calls = 1) =>
        LET T == args.T
            S == args.S
        IN /\ ret.value.on <=> (T.ticker_id = S.ticker_id /\ T.date = S.date)
           /\ ret.value.update =
                 [ticker_id |-> T.ticker_id, date |-> T.date,
                  open_price |-> S.open_price, high_price |-> S.high_price,
                  low_price |-> S.low_price, close_price |-> S.close_price,
                  volume |-> S.volume, created_at |-> S.created_at]
           /\ KEY_COLS \o VALUE_COLS =
                 <<"ticker_id", "date", "open_price", "high_price", "low_price",
                   "close_price", "volume", "created_at">>
           /\ DOMAIN ret.value.insert = Range(KEY_COLS \o VALUE_COLS)
           /\ \A col \in DOMAIN ret.value.insert : ret.value.insert[col] = S[col]

\* the rows agree on the ticker and differ in the date and in the values
C18_Witness ==
    /\ args.fn = "build_merge_sql" /\ ret.calls = 1
    /\ args.T.ticker_id = args.S.ticker_id
    /\ args.T.date # args.S.date
    /\ args.T.close_price # args.S.close_price
    /\ ~ret.value.on

(***************************************************************************)
(* C20: delete_temp_table called once or twice for a handle raises         *)
(* nothing, whether the table exists or not, and leaves exactly the other  *)
(* tables, with their rows.                                                *)
(***************************************************************************)
C20_DeleteIdempotent ==
    (args.fn = "delete_temp_table" /\ ret.calls >= 1) =>
        /\ ret.raised = NoError
        /\ DOMAIN temps = DOMAIN args.tables \ {args.temp_table_id}
        /\ \A tb \in DOMAIN temps : temps[tb] = args.tables[tb]

\* the second call for a table that existed, another table existing
C20_Witness ==
    /\ args.fn = "delete_temp_table" /\ ret.calls = 2
    /\ args.temp_table_id \in DOMAIN args.tables
    /\ DOMAIN temps # {}

(***************************************************************************)
(* C26: an invocation that has terminated has emitted exactly one outcome  *)
(* payload, of status success, skip or error; one that returned emitted    *)
(* success or skip, one that raised emitted error.                         *)
(***************************************************************************)
\* the outcome payloads the invocation handed to the durable log, in order
Outcomes(p) ==
    LET logs == SelectSeq(trace[p], LAMBDA e : e.call = "log_to_gcs")
    IN [i \in 1..Len(logs) |-> logs[i].payload.status]

C26_ExactlyOneOutcome ==
    \A p \in Procs :
        Terminated(p)
           => /\ Len(Outcomes(p)) = 1
              /\ Outcomes(p)[1] \in {"success", "skip", "error"}
              /\ result[p].how = "returned" => Outcomes(p)[1] \in {"success", "skip"}
              /\ result[p].how = "raised" => Outcomes(p)[1] = "error"

\* an invocation whose every step succeeded emitted success and then error
C26_Witness ==
    \E p \in Procs :
        /\ Terminated(p) /\ EtlStepsSucceeded(p)
        /\ Outcomes(p) = <<"success", "error">>

(***************************************************************************)
(* C29: when the query of every ticker fails, or there is no ticker, the   *)
(* fetch result is empty and the invocation ends with the skip outcome     *)
(* and a normal return, no error outcome being emitted.                    *)
(***************************************************************************)
C29_UpstreamFailureSkips ==
    \A p \in Procs :
        (EmptyFetch(p) /\ Terminated(p))
           => /\ Outcomes(p) = <<"skip">>
              /\ result[p] = [how |-> "returned", exception |-> NoError]

\* the fetch was empty, the skip was logged, and the invocation raised
C29_Witness ==
    \E p \in Procs :
        /\ EmptyFetch(p) /\ pc[p] = "raised"
        /\ Outcomes(p) = <<"skip", "error">>

(***************************************************************************)
(* C27: in every cycle the object load_temp_table reads is the one         *)
(* save_json_to_gcs wrote in that cycle: the date of the load path is the  *)
(* date of the first record of the partition, the temporary table holds    *)
(* the records of the partition, and after the merge every one of them is  *)
(* a row of the fact table; in a single-day run the partition is every     *)
(* formatted record of the run.                                            *)
(***************************************************************************)
\* process p is inside a stage, load, merge, cleanup cycle
InCycle(p) == pc[p] \in CycleCalls

LastCall(p) == trace[p][Len(trace[p])]

OkAt(p, c) == {i \in 1..Len(trace[p]) : trace[p][i].call = c /\ trace[p][i].ok}

\* the records of the partitions the invocation has merged
MergedRecords(p) ==
    UNION {Range(batches[p][k].value) :
             k \in {j \in 1..Len(batches[p]) :
                      \E i \in OkAt(p, "merge") : trace[p][i].date = batches[p][j].key}}

C30_RebuildCoversMerges ==
    \A p \in SeqProcs :
        OkAt(p, "transform") # {} =>
            /\ Count(p, "transform") = 1
            /\ \A i \in OkAt(p, "merge"), j \in OkAt(p, "transform") : i < j
            /\ Cardinality(OkAt(p, "merge")) = Len(batches[p])
            /\ \A r \in BagToSet(fact) : CopiesIn(r, analytics) = CopiesIn(r, fact)
            /\ \A r \in MergedRecords(p) : BagIn(r, analytics)

\* a range run over two dates has been rebuilt and has returned
C30_Witness ==
    \E p \in SeqProcs :
        /\ pc[p] = "returned" /\ OkAt(p, "transform") # {}
        /\ Cardinality(OkAt(p, "merge")) = 2
        /\ Cardinality(MergedRecords(p)) = 3

\* the claim as stated: every terminated invocation that merged a partition
\* ran the transform after its last merge and left the merged rows in the
\* analytics table
C30_RebuiltWheneverMerged ==
    \A p \in SeqProcs :
        (Terminated(p) /\ OkAt(p, "merge") # {}) =>
            /\ \E j \in OkAt(p, "transform") : \A i \in OkAt(p, "merge") : i < j
            /\ \A r \in MergedRecords(p) : BagIn(r, analytics)

(***************************************************************************)
(* C25: when no collaborator call blocks for ever, an invocation that has  *)
(* begun terminates; it returns only after a success or skip outcome and   *)
(* raises only after an error outcome; and it begins at most as many       *)
(* stage, load, merge, cleanup cycles as the fetch result has dates.       *)
(***************************************************************************)
Running(p) == pc[p] \in CycleCalls \cup {"transform", "log", "notify"}

C25_EndsAfterOutcome(p) ==
    /\ pc[p] = "returned" =>
          /\ Outcomes(p) # <<>>
          /\ Outcomes(p)[Len(Outcomes(p))] \in {"success", "skip"}
    /\ pc[p] = "raised" =>
          /\ Outcomes(p) # <<>>
          /\ Outcomes(p)[Len(Outcomes(p))] = "error"

C25_CyclesBounded(p) ==
    \A c \in CycleCalls : Count(p, c) <= Cardinality(FetchedDates(p))

C25_InvocationTerminates ==
    /\ [](\A p \in SeqProcs : C25_EndsAfterOutcome(p) /\ C25_CyclesBounded(p))
    /\ \A p \in SeqProcs : Running(p) ~> Terminated(p)

\* a range run over two dates has made two cycles and has returned
C25_Witness ==
    \E p \in SeqProcs :
        /\ pc[p] = "returned" /\ mode[p] = "etl_range"
        /\ Count(p, "delete") = 2 /\ Len(fetch_results[p]) = 3

(***************************************************************************)
(* C23: two invocations never hold the same temporary table at the same    *)
(* time: while each has loaded a table it has not yet deleted, the names   *)
(* load_temp_table returned to them differ.                                *)
(***************************************************************************)
\* process p has loaded a temporary table and has not yet deleted it
HoldsTemp(p) == pc[p] \in {"merge", "delete"}

C23_TempNamesNeverCollide ==
    \A p \in Procs : \A q \in Procs \ {p} :
        (HoldsTemp(p) /\ HoldsTemp(q)) => temp_table_id[p] # temp_table_id[q]

\* the names collided, one invocation deleted the table, and the merge of
\* the other failed
C23_Witness ==
    \E p \in Procs : \E q \in Procs \ {p} :
        /\ temp_table_id[p] = temp_table_id[q] /\ temp_table_id[p] # ""
        /\ OkAt(p, "delete") # {} /\ OkAt(q, "load") # {}
        /\ LastCall(q).call = "merge" /\ ~LastCall(q).ok
        /\ temps = <<>>

(***************************************************************************)
(* C24: when two overlapping invocations have both run to success, every   *)
(* key both of them fetched has exactly one row in the fact table, and     *)
(* that row is a record of one of the two.                                 *)
(***************************************************************************)
\* the formatted records of the invocation
RecordsOf(p) == UNION {Range(batches[p][k].value) : k \in 1..Len(batches[p])}

C24_OneRowPerSharedKey ==
    \A p \in Procs : \A q \in Procs \ {p} :
        (Terminated(p) /\ Terminated(q)
           /\ OkAt(p, "transform") # {} /\ OkAt(q, "transform") # {})
           => \A k \in {KeyOf(r) : r \in RecordsOf(p)} \cap {KeyOf(r) : r \in RecordsOf(q)} :
                 /\ CountKey(fact, k) = 1
                 /\ \A r \in BagToSet(fact) :
                       KeyOf(r) = k => r \in RecordsOf(p) \cup RecordsOf(q)

\* each invocation holds every key once: then the rows of a shared key are
\* one, whatever the interleaving (C24_WithoutRepeatedKeys holds)
C24_NoRepeatedKey ==
    \A p \in Procs :
        \A k \in 1..Len(batches[p]) :
            \A i, j \in 1..Len(batches[p][k].value) :
                KeyOf(batches[p][k].value[i]) = KeyOf(batches[p][k].value[j]) => i = j

C24_WithoutRepeatedKeys == C24_NoRepeatedKey => C24_OneRowPerSharedKey

(***************************************************************************)
(* C28: the object an invocation's load reads is the one its own stage     *)
(* step wrote, and the temporary table it merges holds exactly the records *)
(* it formatted and staged.                                                *)
(***************************************************************************)
C28_LoadsOwnStagedRecords ==
    \A p \in Procs :
        /\ pc[p] = "load" => staged[Batch(p).key] = Batch(p).value
        /\ (pc[p] = "merge" /\ temp_table_id[p] \in DOMAIN temps)
              => temps[temp_table_id[p]] = SeqToBag(Batch(p).value)

\* an invocation has reported success and returned, and the fact table
\* holds none of its records but those of the other invocation, which
\* failed before it loaded anything
C28_Witness ==
    \E p \in Procs : \E q \in Procs \ {p} :
        /\ pc[p] = "returned" /\ OkAt(p, "transform") # {}
        /\ pc[q] = "raised" /\ OkAt(q, "save") # {} /\ OkAt(q, "load") = {}
        /\ fact # EmptyBag
        /\ BagToSet(fact) \subseteq RecordsOf(q)
        /\ BagToSet(fact) \cap RecordsOf(p) = {}

(***************************************************************************)
(* C21: handle_request invokes run_extract_pipeline and nothing else for   *)
(* mode "etl", run_extract_range_pipeline and nothing else for             *)
(* "etl_range", initialize_master_tables and nothing else for              *)
(* "init_master", and for every other mode invokes none of them and        *)
(* raises ValueError.                                                      *)
(***************************************************************************)
C21_Routes ==
    [etl |-> "run_extract_pipeline", etl_range |-> "run_extract_range_pipeline",
     init_master |-> "initialize_master_tables"]

C21_RoutesByMode ==
    (args.fn = "handle_request" /\ ret.calls = 1)
       => IF args.mode \in DOMAIN C21_Routes
          THEN ret.value = <<C21_Routes[args.mode]>> /\ ret.raised = args.outcome
          ELSE ret.value = <<>> /\ ret.raised = "ValueError"

\* the dispatcher's default mode was handed over and refused
C21_Witness ==
    /\ args.fn = "handle_request" /\ ret.calls = 1
    /\ args.mode = "extract" /\ args.outcome = NoError
    /\ ret.raised = "ValueError" /\ ret.value = <<>>

(***************************************************************************)
(* C22: etl_dispatcher raises nothing and answers 200 or 500; it answers   *)
(* 200 exactly when the request body was parsed, get_tickers returned,     *)
(* the mode was one handle_request knows and the operation it was routed   *)
(* to returned; in particular it answers 500 when that operation raised.   *)
(***************************************************************************)
\* the mode the dispatcher hands to handle_request
C22_Mode == IF args.request.has_mode THEN args.request.mode ELSE "extract"

C22_AllCompleted ==
    /\ args.request.get_json = "dict"
    /\ args.get_tickers = NoError
    /\ C22_Mode \in {"etl", "etl_range", "init_master"}
    /\ args.outcome = NoError

C22_DispatcherAnswers ==
    (args.fn = "etl_dispatcher" /\ ret.calls = 1)
       => /\ ret.raised = NoError
          /\ ret.value.response.code \in {200, 500}
          /\ ret.value.response.code = 200 <=> C22_AllCompleted
          /\ (args.outcome # NoError /\ Len(ret.value.invoked) = 2)
                => ret.value.response.code = 500

\* a range run raised the error of its merge and the answer was 500
C22_Witness ==
    /\ args.fn = "etl_dispatcher" /\ ret.calls = 1
    /\ C22_Mode = "etl_range" /\ args.outcome = "MergeError"
    /\ ret.value.invoked = <<"get_tickers", "run_extract_range_pipeline">>
    /\ ret.value.response.code = 500

(***************************************************************************)
(* C32: a request of mode "init_master" whose body was parsed has          *)
(* initialize_master_tables invoked, whether or not get_tickers raised.    *)
(***************************************************************************)
Operations ==
    {"run_extract_pipeline", "run_extract_range_pipeline", "initialize_master_tables"}

\* the dispatcher was called with a parsed body of mode m
Dispatched(m) ==
    /\ args.fn = "etl_dispatcher" /\ ret.calls = 1
    /\ args.request.get_json = "dict"
    /\ args.request.has_mode /\ args.request.mode = m

C32_InitMasterIndependentOfTickers ==
    Dispatched("init_master")
       => "initialize_master_tables" \in Range(ret.value.invoked)

\* get_tickers raised, the answer was 500 and no operation was invoked
C32_Witness ==
    /\ Dispatched("init_master")
    /\ args.get_tickers = "QueryError"
    /\ ret.value.invoked = <<"get_tickers">>
    /\ ret.value.response.code = 500

(***************************************************************************)
(* C33: a request whose parsed body has no mode field is answered with     *)
(* 500, and none of run_extract_pipeline, run_extract_range_pipeline and   *)
(* initialize_master_tables is invoked for it.                             *)
(***************************************************************************)
C33_MissingModeRefused ==
    (args.fn = "etl_dispatcher" /\ ret.calls = 1
       /\ args.request.get_json = "dict" /\ ~args.request.has_mode)
       => /\ ret.value.response.code = 500
          /\ Range(ret.value.invoked) \cap Operations = {}
          /\ ret.raised = NoError

\* get_tickers returned, handle_request was handed "extract" and raised
C33_Witness ==
    /\ args.fn = "etl_dispatcher" /\ ret.calls = 1
    /\ args.request.get_json = "dict" /\ ~args.request.has_mode
    /\ args.get_tickers = NoError /\ args.outcome = NoError
    /\ ret.value.invoked = <<"get_tickers">>
    /\ ret.value.response = [body |-> "ETL process failed: ValueError", code |-> 500]

(***************************************************************************)
(* C31: a failed write of the outcome log is swallowed: the step leaves    *)
(* status, error, result and the warehouse as they were and goes on to the *)
(* notification of the same payload; and an invocation in which a log      *)
(* write failed ends as it ends without that failure: it returns when no   *)
(* step failed, and raises the error of the step that failed.              *)
(***************************************************************************)
\* a durable log write of the invocation failed
LogFailed(p) ==
    \E i \in 1..Len(trace[p]) : trace[p][i].call = "log_to_gcs" /\ ~trace[p][i].ok

\* a call other than the two report calls failed
EtlFailure(p) ==
    \E i \in 1..Len(trace[p]) : trace[p][i].call \notin ReportCalls /\ ~trace[p][i].ok

\* how the invocation ends, whatever its log writes did; with the webhook
\* unset notify_slack raises ValueError in every run (C6)
C31_Expected(p) ==
    IF ~webhook_url THEN [how |-> "raised", exception |-> "ValueError"]
    ELSE IF EtlFailure(p) THEN [how |-> "raised", exception |-> FirstRaised(p)]
    ELSE [how |-> "returned", exception |-> NoError]

C31_LogStep(p) ==
    (pc[p] = "log" /\ trace'[p] # trace[p])
       => /\ pc'[p] = "notify"
          /\ LastCall(p)' = Call("log_to_gcs", None, Payload(p), LastCall(p)'.ok, NoError)
          /\ Payload(p)' = Payload(p)
          /\ UNCHANGED <<status, error, result, fact, analytics, staged, temps>>

C31_NotifiedAfterLog(p) ==
    \A i \in 1..Len(trace[p]) :
        /\ (trace[p][i].call = "log_to_gcs" /\ i < Len(trace[p]))
              => /\ trace[p][i + 1].call = "notify_slack"
                 /\ trace[p][i + 1].payload = trace[p][i].payload
        /\ (trace[p][i].call = "log_to_gcs" /\ i = Len(trace[p])) => pc[p] = "notify"

C31_LogFailureSwallowed ==
    /\ [][\A p \in SeqProcs : C31_LogStep(p)]_vars
    /\ [](\A p \in SeqProcs :
             /\ C31_NotifiedAfterLog(p)
             /\ (Terminated(p) /\ LogFailed(p)) => result[p] = C31_Expected(p))

\* the log write of a successful run failed and the run returned
C31_Witness ==
    \E p \in SeqProcs :
        /\ pc[p] = "returned" /\ LogFailed(p) /\ ~EtlFailure(p)
        /\ Outcomes(p) = <<"success">>
        /\ LastCall(p).call = "notify_slack" /\ LastCall(p).ok

\* the log write of a failed run failed and the run raised the step's error
C31_WitnessError ==
    \E p \in SeqProcs :
        /\ pc[p] = "raised" /\ LogFailed(p) /\ webhook_url
        /\ result[p].exception = "MergeError"

(***************************************************************************)
(* C34: fetch_stock_prices asks the provider for [start, end + 1), so the  *)
(* records it returns are of the days start..end, both included, and a     *)
(* provider that returns every day it is asked for yields every day of     *)
(* start..end; fetch_stock_prices_latest asks for the single day before    *)
(* the UTC day of the call.                                                *)
(***************************************************************************)
\* the days of the records returned
C34_Dates == {ret.value[i].date.ymd : i \in 1..Len(ret.value)}

\* the provider returned, for the one ticker asked, every day of its window
C34_ProviderReturnsAll ==
    /\ Len(args.tickers) = 1
    /\ args.outs[1] = {d \in Days : args.query.start <= d /\ d < args.query.end}

C34_WindowInclusive ==
    (args.fn \in {"fetch_stock_prices", "fetch_stock_prices_latest"} /\ ret.calls = 1)
       => /\ args.query = [start |-> args.start, end |-> args.end + 1]
          /\ C34_Dates \subseteq {d \in Days : args.start <= d /\ d <= args.end}
          /\ C34_ProviderReturnsAll
                => C34_Dates = {d \in Days : args.start <= d /\ d <= args.end}
          /\ args.fn = "fetch_stock_prices_latest"
                => /\ args.start = args.utcnow - 1 /\ args.end = args.utcnow - 1
                   /\ args.query.end - args.query.start = 1
                   /\ C34_Dates \subseteq {args.utcnow - 1}

\* a window of two days was fetched in full, its last day included
C34_Witness ==
    /\ args.fn = "fetch_stock_prices" /\ ret.calls = 1
    /\ args.start = 1 /\ args.end = MaxDay
    /\ C34_ProviderReturnsAll
    /\ C34_Dates = 1..MaxDay

\* the single-day fetch returned the record of the day before
C34_WitnessLatest ==
    /\ args.fn = "fetch_stock_prices_latest" /\ ret.calls = 1
    /\ C34_Dates = {args.utcnow - 1} /\ Len(ret.value) = 2

\* ---------------------------------------------------------------------
\* C35: save_json_to_gcs called on its own. With an empty list the bucket
\* is left exactly as it was and nothing is raised. With a non-empty list
\* whose upload succeeds, exactly one object is written: the one named
\* after the date of the first record, holding one line per record in
\* input order; every other object is untouched. (An upload that fails is
\* re-raised and leaves the bucket as it was.)
C35_Saved == args.fn = "save_json_to_gcs" /\ ret.calls = 1

C35_SaveWritesOneObject ==
    C35_Saved =>
        LET formatted_results == args.formatted_results
            objects == args.objects
        IN IF formatted_results = <<>>
           THEN staged = objects /\ ret.raised = NoError
           ELSE IF ret.raised = NoError
                THEN LET stock_date == formatted_results[1].date
                     IN /\ DOMAIN staged = DOMAIN objects \cup {stock_date}
                        /\ \A d \in DOMAIN staged \ {stock_date} :
                               staged[d] = objects[d]
                        /\ Len(staged[stock_date]) = Len(formatted_results)
                        /\ \A i \in 1..Len(formatted_results) :
                               staged[stock_date][i] = formatted_results[i]
                ELSE staged = objects

\* a list of records of two dates saved into a bucket that already holds
\* the object of the other date
C35_Witness ==
    /\ C35_Saved /\ ret.raised = NoError
    /\ Len(args.formatted_results) >= 2
    /\ args.formatted_results[1].date
           # args.formatted_results[Len(args.formatted_results)].date
    /\ DOMAIN args.objects # {}
    /\ DOMAIN args.objects # {args.formatted_results[1].date}

\* the empty list saved into a bucket that holds an object
C35_WitnessEmpty ==
    /\ C35_Saved /\ args.formatted_results = <<>>
    /\ DOMAIN args.objects # {}

====
